---- MODULE Spec2Model ----
(***************************************************************************)
(* A model of the VASP run pipeline of pyiron_workflow_vasp:               *)
(*   src/pyiron_workflow_vasp/vasp.py  (create_WorkingDirectory,           *)
(*       write_VaspInputSet, parse_VaspOutput, check_convergence, vasp_job)*)
(*   src/generic.py  (shell, isLineInFile, delete_files_recursively,       *)
(*       compress_directory, remove_dir)                                   *)
(*                                                                         *)
(* The file system is the only shared state.  The working directory is a   *)
(* function from relative paths <<directory, base name>> to file contents. *)
(* Text files are sequences of characters, read line by line as Python     *)
(* reads them.                                                             *)
(***************************************************************************)
EXTENDS Integers, Sequences, FiniteSets, TLC

VARIABLES
    pc,        \* the node of vasp_job that runs next, or "done" / "aborted"
    wd,        \* what is at the workdir path: "absent", "dir" or "file"
    tree,      \* the files below workdir: [set of paths -> content]
    locked,    \* paths whose unlinking fails (os.remove / rmtree raise on them)
    sibling,   \* the file <dirname(workdir)>/<basename(workdir)>.tar.gz, or Absent
    inp,       \* the inputs of the vasp_job macro
    self,      \* the outputs of the macro's nodes, by label
    trace,     \* the nodes that have run, in order
    calls,     \* the arguments each post-processing node was called with
    error,     \* the node whose exception ended the run, or "none"
    proc,      \* the command line shell ran and what the command did
    before,    \* what was on disk when the node that ran last started
    reads,     \* the files check_convergence opened, in order
    twin       \* the same run, had check_convergence returned the other verdict

vars ==
    <<pc, wd, tree, locked, sibling, inp, self, trace, calls, error, proc, before,
      reads, twin>>

----------------------------------------------------------------------------
(* Bounds of the model *)

\* the longest primary log, in characters
MaxLogLen == 4
\* the longest backup log, in characters
MaxBackupLen == 3
\* the most files a directory tree holds when delete_files_recursively or
\* compress_directory is called alone
MaxFiles == 3
\* the largest exit code the external process returns
MaxExit == 2

----------------------------------------------------------------------------
(* Text *)

\* the characters of the modelled text files: a letter, a blank, a line break
Chars == {"m", " ", "\n"}

\* vasp.py:301-303: the marker line, two letters standing for its words
line_converged == <<"m", "m">>

Whitespace == {" ", "\n"}

\* all character sequences of length at most n
RECURSIVE SeqsUpTo(_, _)
SeqsUpTo(S, n) ==
    IF n = 0 THEN {<<>>}
    ELSE LET shorter == SeqsUpTo(S, n - 1)
         IN  shorter \cup {Append(s, c) : s \in {t \in shorter : Len(t) = n - 1}, c \in S}

\* the lines a text file yields when iterated: each keeps its line break
RECURSIVE FileLines(_)
FileLines(chars) ==
    IF chars = <<>> THEN <<>>
    ELSE LET brk == {i \in 1..Len(chars) : chars[i] = "\n"}
             cut == IF brk = {} THEN Len(chars)
                    ELSE CHOOSE i \in brk : \A j \in brk : i <= j
         IN  <<SubSeq(chars, 1, cut)>> \o FileLines(SubSeq(chars, cut + 1, Len(chars)))

\* str.strip(): drop leading and trailing whitespace
RECURSIVE strip(_)
strip(s) ==
    IF s = <<>> THEN s
    ELSE IF s[1] \in Whitespace THEN strip(Tail(s))
    ELSE IF s[Len(s)] \in Whitespace THEN strip(SubSeq(s, 1, Len(s) - 1))
    ELSE s

\* Python's `line in file_line` on strings
IsSubstring(line, file_line) ==
    \E i \in 0..(Len(file_line) - Len(line)) :
        SubSeq(file_line, i + 1, i + Len(line)) = line

----------------------------------------------------------------------------
(* Files *)

Absent == [kind |-> "absent"]
TextFile(chars) == [kind |-> "text", chars |-> chars]
\* a file that cannot be read as text: opening or decoding it raises
BinFile == [kind |-> "bin"]
\* a well-formed vasprun.xml with its converged flag
XmlFile(converged) == [kind |-> "xml", converged |-> converged]
\* any other file
DataFile == [kind |-> "data"]
\* a tar.gz archive and the paths added to it
TarFile(entries) == [kind |-> "tar", entries |-> entries]

Root == "."
Dirs == {Root, "sub"}

PathOf(dir, name) == <<dir, name>>
BaseName(path) == path[2]

Lookup(t, path) == IF path \in DOMAIN t THEN t[path] ELSE Absent

EmptyTree == [p \in {} |-> Absent]

Without(t, gone) == [p \in DOMAIN t \ gone |-> t[p]]

WithFile(t, path, content) ==
    [p \in DOMAIN t \cup {path} |-> IF p = path THEN content ELSE t[p]]

----------------------------------------------------------------------------
(* isLineInFile, src/generic.py:118-144 *)

\* the result of the loop over the file's lines
LineFound(chars, line, exact_match) ==
    LET ls == FileLines(chars)
    IN  \E i \in 1..Len(ls) :
            \/ exact_match /\ line = strip(ls[i])
            \/ ~exact_match /\ IsSubstring(line, ls[i])

\* a version that ignores exact_match=False and compares whole lines
isLineInFileExact(file, line, exact_match) ==
    CASE file.kind = "absent" -> [line_found |-> FALSE, exc |-> "none"]
      [] file.kind = "text"   -> [line_found |-> LineFound(file.chars, line, TRUE),
                                  exc |-> "none"]
      [] OTHER                -> [line_found |-> FALSE, exc |-> "OSError"]

\* open() raises FileNotFoundError for a missing file, which is caught and logged;
\* any other error of open() or of decoding the text propagates
isLineInFile(file, line, exact_match) ==
    CASE file.kind = "absent" -> [line_found |-> FALSE, exc |-> "none"]
      [] file.kind = "text"   -> [line_found |-> LineFound(file.chars, line, exact_match),
                                  exc |-> "none"]
      [] OTHER                -> [line_found |-> FALSE, exc |-> "OSError"]

----------------------------------------------------------------------------
(* check_convergence, src/pyiron_workflow_vasp/vasp.py:282-325 *)

\* Vasprun(filename=...): raises unless the file is a well-formed vasprun.xml
Vasprun(file) ==
    IF file.kind = "xml" THEN [converged |-> file.converged, exc |-> "none"]
    ELSE [converged |-> FALSE,
          exc |-> IF file.kind = "absent" THEN "FileNotFoundError" ELSE "ParseError"]

\* a version with one `except:` only: what the vasp.log tier raises propagates
check_convergence_uncaught(t, filename_vasprun, filename_vasplog, backup_vasplog) ==
    LET vr == Vasprun(Lookup(t, PathOf(Root, filename_vasprun)))
        t2 == isLineInFile(Lookup(t, PathOf(Root, filename_vasplog)), line_converged, FALSE)
    IN  IF vr.exc = "none"
        THEN [converged |-> vr.converged, exc |-> "none", reads |-> <<filename_vasprun>>]
        ELSE [converged |-> t2.line_found, exc |-> t2.exc,
              reads |-> <<filename_vasprun, filename_vasplog>>]

\* a version that scans both logs whatever vasprun.xml says
check_convergence_reads_all(t, filename_vasprun, filename_vasplog, backup_vasplog) ==
    LET vr == Vasprun(Lookup(t, PathOf(Root, filename_vasprun)))
        t2 == isLineInFile(Lookup(t, PathOf(Root, filename_vasplog)), line_converged, FALSE)
        t3 == isLineInFile(Lookup(t, PathOf(Root, backup_vasplog)), line_converged, FALSE)
    IN  [converged |-> (vr.exc = "none" /\ vr.converged) \/ t2.line_found \/ t3.line_found,
         exc |-> "none",
         reads |-> <<filename_vasprun, filename_vasplog, backup_vasplog>>]

\* converged starts False; each bare `except:` catches whatever the tier raised
check_convergence(t, filename_vasprun, filename_vasplog, backup_vasplog) ==
    LET vr == Vasprun(Lookup(t, PathOf(Root, filename_vasprun)))
        t2 == isLineInFile(Lookup(t, PathOf(Root, filename_vasplog)), line_converged, FALSE)
        t3 == isLineInFile(Lookup(t, PathOf(Root, backup_vasplog)), line_converged, FALSE)
    IN  IF vr.exc = "none"
        THEN [converged |-> vr.converged, exc |-> "none", reads |-> <<filename_vasprun>>]
        ELSE IF t2.exc = "none"
        THEN [converged |-> t2.line_found, exc |-> "none",
              reads |-> <<filename_vasprun, filename_vasplog>>]
        ELSE IF t3.exc = "none"
        THEN [converged |-> t3.line_found, exc |-> "none",
              reads |-> <<filename_vasprun, filename_vasplog, backup_vasplog>>]
        ELSE [converged |-> FALSE, exc |-> "none",
              reads |-> <<filename_vasprun, filename_vasplog, backup_vasplog>>]

----------------------------------------------------------------------------
(* The working directory and the names in it *)

\* basename(workdir) + ".tar.gz", the name compress_directory gives the archive
ArchiveName == "run.tar.gz"

\* the files write_VaspInputSet writes (vasp.py:252-256)
InputNames == {"POSCAR", "INCAR", "POTCAR"}

\* the default of files_to_be_deleted (vasp.py:334)
DefaultDeleted == {"CHG", "CHGCAR", "WAVECAR"}

\* what is on disk: the workdir path, the files below it, the archive beside it
Disk(w, t, s) == [wd |-> w, tree |-> t, sibling |-> s]

NotData == "NOT_DATA"
WorkDir == "run"

----------------------------------------------------------------------------
(* create_WorkingDirectory, src/pyiron_workflow_vasp/vasp.py:217-237 *)

\* os.makedirs may fail (mkdir_fails); an existing path only draws a warning
create_WorkingDirectory(w, mkdir_fails) ==
    IF w = "absent"
    THEN IF mkdir_fails THEN [wd |-> w, ret |-> NotData, exc |-> "OSError", warned |-> FALSE]
         ELSE [wd |-> "dir", ret |-> WorkDir, exc |-> "none", warned |-> FALSE]
    ELSE [wd |-> w, ret |-> WorkDir, exc |-> "none", warned |-> TRUE]

----------------------------------------------------------------------------
(* write_VaspInputSet, src/pyiron_workflow_vasp/vasp.py:240-258 *)

\* the writers open files below workdir: they raise unless it is a directory,
\* or when the input object cannot be written (writer_fails)
write_VaspInputSet(w, t, writer_fails) ==
    IF w # "dir" \/ writer_fails
    THEN [tree |-> t, ret |-> NotData, exc |-> "OSError"]
    ELSE [tree |-> [p \in DOMAIN t \cup {PathOf(Root, n) : n \in InputNames} |->
                       IF p[1] = Root /\ p[2] \in InputNames THEN DataFile ELSE t[p]],
          ret |-> WorkDir, exc |-> "none"]

----------------------------------------------------------------------------
(* shell, src/generic.py:77-115 *)

\* what the command line does once /bin/sh runs it: the command is found and
\* exits with a code, or sh cannot find it (127) or may not execute it (126)
ShExit(run) ==
    CASE run.launch = "not_found" -> 127
      [] run.launch = "denied"    -> 126
      [] OTHER                     -> run.exit

\* a version that raises when the command cannot be launched
shell_raises_on_launch(w, arguments, run) ==
    IF w # "dir" \/ run.launch # "ok"
    THEN [output |-> NotData, exc |-> "OSError", argv |-> <<>>]
    ELSE [output |-> [stdout |-> run.stdout, stderr |-> run.stderr,
                      return_code |-> ShExit(run)],
          exc |-> "none",
          argv |-> <<"command">> \o (IF arguments = "None" THEN <<>> ELSE arguments)]

\* a version that runs the command with check=True
shell_checks_exit(w, arguments, run) ==
    IF w # "dir" \/ ShExit(run) # 0
    THEN [output |-> NotData, exc |-> "CalledProcessError", argv |-> <<>>]
    ELSE [output |-> [stdout |-> run.stdout, stderr |-> run.stderr,
                      return_code |-> ShExit(run)],
          exc |-> "none",
          argv |-> <<"command">> \o (IF arguments = "None" THEN <<>> ELSE arguments)]

\* a version whose arguments default to ["-in", "control.inp"]
shell_default_arguments(w, arguments, run) ==
    IF w # "dir"
    THEN [output |-> NotData, exc |-> "OSError", argv |-> <<>>]
    ELSE [output |-> [stdout |-> run.stdout, stderr |-> run.stderr,
                      return_code |-> ShExit(run)],
          exc |-> "none",
          argv |-> <<"command">> \o (IF arguments = "None" THEN <<"-in", "control.inp">>
                                     ELSE arguments)]

\* subprocess.run(..., shell=True) without check: only a cwd that is no directory
\* makes it raise; whatever the command line does comes back as the exit code
shell(w, arguments, run) ==
    IF w # "dir"
    THEN [output |-> NotData, exc |-> "OSError", argv |-> <<>>]
    ELSE [output |-> [stdout |-> run.stdout, stderr |-> run.stderr,
                      return_code |-> ShExit(run)],
          exc |-> "none",
          argv |-> <<"command">> \o (IF arguments = "None" THEN <<>> ELSE arguments)]

----------------------------------------------------------------------------
(* parse_VaspOutput, src/pyiron_workflow_vasp/vasp.py:261-278 *)

\* the parser is called with keyword arguments only; it may raise (parser_fails)
parse_VaspOutput(workdir, function, parser_args, parser_fails) ==
    LET fn   == IF function = "None" THEN "parse_vasp_output" ELSE function
        args == IF function = "None" THEN {<<"working_directory", workdir>>} ELSE parser_args
    IN  IF parser_fails
        THEN [output_dict |-> NotData, exc |-> "Exception", parser |-> fn, kwargs |-> args]
        ELSE [output_dict |-> [parsed_by |-> fn, kwargs |-> args],
              exc |-> "none", parser |-> fn, kwargs |-> args]

----------------------------------------------------------------------------
(* os.walk: the directory itself first, then its subdirectories *)

\* the path os.walk reaches first among `todo`
FirstOf(todo) ==
    IF \E p \in todo : p[1] = Root
    THEN CHOOSE p \in todo : p[1] = Root
    ELSE CHOOSE p \in todo : TRUE

----------------------------------------------------------------------------
(* delete_files_recursively, src/generic.py:146-167 *)

\* the walk over the files not yet visited: a file whose base name is listed is
\* removed; os.remove raising on it (a locked path) is caught and the walk goes on
RECURSIVE DeleteWalk(_, _, _, _)
DeleteWalk(todo, t, lk, files_to_be_deleted) ==
    IF todo = {} THEN [tree |-> t, failed |-> {}]
    ELSE LET file_path == FirstOf(todo)
             rest == DeleteWalk(todo \ {file_path},
                                IF BaseName(file_path) \in files_to_be_deleted
                                   /\ file_path \notin lk
                                THEN Without(t, {file_path}) ELSE t,
                                lk, files_to_be_deleted)
         IN  IF BaseName(file_path) \in files_to_be_deleted /\ file_path \in lk
             THEN [tree |-> rest.tree, failed |-> rest.failed \cup {file_path}]
             ELSE rest

\* the walk of a version that stops at the first deletion that fails
RECURSIVE DeleteWalkStops(_, _, _, _)
DeleteWalkStops(todo, t, lk, files_to_be_deleted) ==
    IF todo = {} THEN [tree |-> t, failed |-> {}]
    ELSE LET file_path == FirstOf(todo)
         IN  IF BaseName(file_path) \in files_to_be_deleted /\ file_path \in lk
             THEN [tree |-> t, failed |-> {file_path}]
             ELSE DeleteWalkStops(todo \ {file_path},
                                  IF BaseName(file_path) \in files_to_be_deleted
                                  THEN Without(t, {file_path}) ELSE t,
                                  lk, files_to_be_deleted)

\* a version whose walk ends at the first failure
delete_files_recursively_stops(w, t, lk, files_to_be_deleted) ==
    IF w # "dir"
    THEN [workdir |-> WorkDir, tree |-> t, failed |-> {}, exc |-> "none"]
    ELSE LET r == DeleteWalkStops(DOMAIN t, t, lk, files_to_be_deleted)
         IN  [workdir |-> WorkDir, tree |-> r.tree, failed |-> r.failed, exc |-> "none"]

\* nothing is deleted unless workdir is a directory; the path is returned either way
delete_files_recursively(w, t, lk, files_to_be_deleted) ==
    IF w # "dir"
    THEN [workdir |-> WorkDir, tree |-> t, failed |-> {}, exc |-> "none"]
    ELSE LET r == DeleteWalk(DOMAIN t, t, lk, files_to_be_deleted)
         IN  [workdir |-> WorkDir, tree |-> r.tree, failed |-> r.failed, exc |-> "none"]

----------------------------------------------------------------------------
(* compress_directory, src/generic.py:169-242 *)

\* how the base names of the model are spelled
Spell(name) ==
    CASE name = "a.txt"       -> <<"a", ".", "t", "x", "t">>
      [] name = "b.log"       -> <<"b", ".", "l", "o", "g">>
      [] name = "run.tar.gz"  -> <<"r", "u", "n", ".", "t", "a", "r", ".", "g", "z">>
      [] name = "vasp.log"    -> <<"v", "a", "s", "p", ".", "l", "o", "g">>
      [] name = "error.out"   -> <<"e", "r", "r", "o", "r", ".", "o", "u", "t">>
      [] name = "vasprun.xml" -> <<"v", "a", "s", "p", "r", "u", "n", ".", "x", "m", "l">>
      [] name = "CHG"         -> <<"C", "H", "G">>
      [] name = "CHGCAR"      -> <<"C", "H", "G", "C", "A", "R">>
      [] name = "WAVECAR"     -> <<"W", "A", "V", "E", "C", "A", "R">>
      [] name = "OUTCAR"      -> <<"O", "U", "T", "C", "A", "R">>
      [] name = "POSCAR"      -> <<"P", "O", "S", "C", "A", "R">>
      [] name = "INCAR"       -> <<"I", "N", "C", "A", "R">>
      [] name = "POTCAR"      -> <<"P", "O", "T", "C", "A", "R">>

\* shell-glob matching of a whole name: `*` stands for any run of characters,
\* `?` for one, any other character for itself
RECURSIVE GlobMatch(_, _)
GlobMatch(chars, pattern) ==
    IF pattern = <<>> THEN chars = <<>>
    ELSE IF pattern[1] = "*"
    THEN GlobMatch(chars, Tail(pattern))
         \/ (chars # <<>> /\ GlobMatch(Tail(chars), pattern))
    ELSE /\ chars # <<>>
         /\ pattern[1] = "?" \/ pattern[1] = chars[1]
         /\ GlobMatch(Tail(chars), Tail(pattern))

\* fnmatch.fnmatch(file, pattern): the base name against one pattern
fnmatch(file, pattern) == GlobMatch(Spell(file), pattern)

\* the path of the tarball: "inside" is workdir/run.tar.gz, "beside" its sibling
OutputFile(inside_dir) == IF inside_dir THEN "inside" ELSE "beside"

\* a version of the walk without the check against the tarball's own path
Archived_keeps_tarball(t, inside_dir, exclude_files, exclude_file_patterns) ==
    {file_path \in DOMAIN t :
        /\ ~\E pattern \in exclude_file_patterns : fnmatch(BaseName(file_path), pattern)
        /\ BaseName(file_path) \notin exclude_files}

\* the files the walk adds to the tarball, which tarfile.open has just created
Archived(t, inside_dir, exclude_files, exclude_file_patterns) ==
    {file_path \in DOMAIN t :
        /\ ~(inside_dir /\ file_path = PathOf(Root, ArchiveName))
        /\ ~\E pattern \in exclude_file_patterns : fnmatch(BaseName(file_path), pattern)
        /\ BaseName(file_path) \notin exclude_files}

\* fault: "open" when tarfile.open raises, "add" when a tar.add raises after the
\* tarball was created, "none" otherwise; neither is caught
compress_directory(d, exclude_files, exclude_file_patterns, inside_dir, actually_compress, fault) ==
    IF ~actually_compress
    THEN [disk |-> d, compressed_file |-> "None", exc |-> "none"]
    ELSE IF fault = "open" \/ (inside_dir /\ d.wd # "dir")
    THEN [disk |-> d, compressed_file |-> NotData, exc |-> "OSError"]
    ELSE LET created == IF inside_dir
                        THEN WithFile(d.tree, PathOf(Root, ArchiveName), TarFile({}))
                        ELSE d.tree
             wanted  == Archived(created, inside_dir, exclude_files, exclude_file_patterns)
             failing == fault = "add" /\ wanted # {}
             tarball == TarFile(IF failing THEN {} ELSE wanted)
             after   == IF inside_dir
                        THEN Disk(d.wd, WithFile(d.tree, PathOf(Root, ArchiveName), tarball),
                                  d.sibling)
                        ELSE Disk(d.wd, d.tree, tarball)
         IN  [disk |-> after,
              compressed_file |-> IF failing THEN NotData ELSE OutputFile(inside_dir),
              exc |-> IF failing THEN "OSError" ELSE "none"]

----------------------------------------------------------------------------
(* remove_dir, src/generic.py:244-248 *)

\* shutil.rmtree(..., ignore_errors=True): what cannot be unlinked stays, and
\* the directory with it
\* a version that calls rmtree without ignore_errors
remove_dir_strict(d, lk, actually_remove) ==
    IF actually_remove /\ d.wd = "dir"
    THEN LET left == [p \in DOMAIN d.tree \cap lk |-> d.tree[p]]
         IN  [disk |-> Disk(IF DOMAIN left = {} THEN "absent" ELSE "dir", left, d.sibling),
              compressed_file |-> IF DOMAIN left = {} THEN WorkDir ELSE NotData,
              exc |-> IF DOMAIN left = {} THEN "none" ELSE "OSError"]
    ELSE [disk |-> d, compressed_file |-> WorkDir, exc |-> "none"]

remove_dir(d, lk, actually_remove) ==
    IF actually_remove /\ d.wd = "dir"
    THEN LET left == [p \in DOMAIN d.tree \cap lk |-> d.tree[p]]
         IN  [disk |-> Disk(IF DOMAIN left = {} THEN "absent" ELSE "dir", left, d.sibling),
              compressed_file |-> WorkDir, exc |-> "none"]
    ELSE [disk |-> d, compressed_file |-> WorkDir, exc |-> "none"]

----------------------------------------------------------------------------
(* vasp_job, src/pyiron_workflow_vasp/vasp.py:328-385 *)

\* the nodes of the macro in the order of its `>>` chain (vasp.py:372-381)
Order ==
    <<"create_WorkingDirectory", "write_VaspInputSet", "shell", "parse_VaspOutput",
      "check_convergence", "delete_files_recursively", "compress_directory",
      "remove_dir">>

Nodes == {Order[i] : i \in 1..Len(Order)}

IndexOf(node) == CHOOSE i \in 1..Len(Order) : Order[i] = node

\* a chain that wires remove_dir before compress_directory
SuccessorRemovesFirst(node) ==
    CASE node = "delete_files_recursively" -> "remove_dir"
      [] node = "remove_dir" -> "compress_directory"
      [] node = "compress_directory" -> "done"
      [] OTHER -> Order[IndexOf(node) + 1]

\* the node that the `ran` signal of `node` starts; the last one ends the run
Successor(node) ==
    IF IndexOf(node) = Len(Order) THEN "done" ELSE Order[IndexOf(node) + 1]

\* a wiring that archives only a converged run
NodeInputsGated(node, i, s) ==
    CASE node = "shell" -> [workdir |-> WorkDir, arguments |-> "None"]
      [] node = "parse_VaspOutput" ->
            [workdir |-> WorkDir, function |-> i.vasp_parser_function,
             parser_args |-> i.vasp_parser_args]
      [] node = "check_convergence" ->
            [workdir |-> WorkDir, filename_vasprun |-> "vasprun.xml",
             filename_vasplog |-> "vasp.log", backup_vasplog |-> "error.out"]
      [] node = "delete_files_recursively" ->
            [workdir |-> WorkDir, files_to_be_deleted |-> i.files_to_be_deleted]
      [] node = "compress_directory" ->
            [directory_path |-> WorkDir, exclude_files |-> {},
             exclude_file_patterns |-> {},
             actually_compress |-> i.compress /\ s.convergence_status = TRUE,
             inside_dir |-> i.compressed_file_in_dir]
      [] node = "remove_dir" ->
            [directory_path |-> WorkDir, actually_remove |-> i.remove_calc_dir]
      [] OTHER -> [workdir |-> WorkDir]

\* the arguments vasp_job gives each node (vasp.py:364-371): all come from the
\* macro's inputs `i`, none from the outputs `s` of another node; what a call
\* leaves out takes the function's default
NodeInputs(node, i, s) ==
    CASE node = "shell" -> [workdir |-> WorkDir, arguments |-> "None"]
      [] node = "parse_VaspOutput" ->
            [workdir |-> WorkDir, function |-> i.vasp_parser_function,
             parser_args |-> i.vasp_parser_args]
      [] node = "check_convergence" ->
            [workdir |-> WorkDir, filename_vasprun |-> "vasprun.xml",
             filename_vasplog |-> "vasp.log", backup_vasplog |-> "error.out"]
      [] node = "delete_files_recursively" ->
            [workdir |-> WorkDir, files_to_be_deleted |-> i.files_to_be_deleted]
      [] node = "compress_directory" ->
            [directory_path |-> WorkDir, exclude_files |-> {},
             exclude_file_patterns |-> {},
             actually_compress |-> i.compress,
             inside_dir |-> i.compressed_file_in_dir]
      [] node = "remove_dir" ->
            [directory_path |-> WorkDir, actually_remove |-> i.remove_calc_dir]
      [] OTHER -> [workdir |-> WorkDir]

\* the outputs of the nodes before any has run
NoOutputs ==
    [working_dir |-> NotData, vaspwriter |-> NotData, job |-> NotData,
     vasp_output |-> NotData, convergence_status |-> NotData, cleanup |-> NotData,
     compress_operation |-> NotData, remove_dir |-> NotData]

NoTwin ==
    [convergence_status |-> NotData, disk |-> Disk("absent", EmptyTree, Absent),
     calls |-> <<>>, error |-> "none"]

\* a node ends: its successor runs, or its exception ends the run
Advance(node, exc) ==
    /\ trace' = Append(trace, node)
    /\ pc' = IF exc = "none" THEN Successor(node) ELSE "aborted"
    /\ error' = IF exc = "none" THEN error ELSE node

----------------------------------------------------------------------------
(* The environment of a run *)

Overlay(t, written) ==
    [p \in DOMAIN t \cup DOMAIN written |-> IF p \in DOMAIN written THEN written[p] ELSE t[p]]

\* a tree holding the given files at the top of the working directory
TopFiles(named) ==
    LET present == {n \in DOMAIN named : named[n].kind # "absent"}
    IN  [p \in {PathOf(Root, n) : n \in present} |-> named[p[2]]]

ConvergenceFiles(vasprun, vasplog, errorout) ==
    TopFiles([n \in {"vasprun.xml", "vasp.log", "error.out"} |->
                 CASE n = "vasprun.xml" -> vasprun
                   [] n = "vasp.log" -> vasplog
                   [] OTHER -> errorout])

\* what the external command may do: it runs and exits with a code, or the
\* shell cannot find it or may not execute it
Procs ==
    [launch : {"ok"}, exit : 0..MaxExit, stdout : {"done"}, stderr : {"", "warn"}]
    \cup [launch : {"not_found", "denied"}, exit : {0}, stdout : {""}, stderr : {"sh"}]

\* the result files a run of the command may leave
VasprunFiles == {Absent, TextFile(<<"m">>), XmlFile(TRUE), XmlFile(FALSE)}

RunLogs ==
    {<<Absent, Absent>>, <<Absent, TextFile(line_converged)>>,
     <<TextFile(line_converged), Absent>>, <<BinFile, TextFile(line_converged)>>}

BigFiles ==
    [p \in {PathOf(Root, "CHG"), PathOf("sub", "CHG"), PathOf(Root, "OUTCAR")} |-> DataFile]

Written(p) ==
    IF p.launch # "ok" THEN {EmptyTree}
    ELSE {Overlay(ConvergenceFiles(v, l[1], l[2]), big) :
              v \in VasprunFiles, l \in RunLogs, big \in {BigFiles}}

MacroInputs ==
    [files_to_be_deleted : {DefaultDeleted, {"CHG", "vasp.log"}},
     compress : BOOLEAN, compressed_file_in_dir : BOOLEAN, remove_calc_dir : BOOLEAN,
     vasp_parser_function : {"None", "my_parser"},
     vasp_parser_args : {{}, {<<"verbose", "yes">>}}]

DefaultInputs ==
    [files_to_be_deleted |-> DefaultDeleted, compress |-> FALSE,
     compressed_file_in_dir |-> FALSE, remove_calc_dir |-> FALSE,
     vasp_parser_function |-> "None", vasp_parser_args |-> {}]

----------------------------------------------------------------------------
(* The nodes of vasp_job as steps of a run *)

Here == Disk(wd, tree, sibling)

\* the node outputs as the twin run has them
TwinSelf == [self EXCEPT !.convergence_status = twin.convergence_status]

RunCreate ==
    /\ pc = "create_WorkingDirectory"
    /\ \E mkdir_fails \in BOOLEAN :
          LET r == create_WorkingDirectory(wd, mkdir_fails)
          IN  /\ wd' = r.wd
              /\ self' = [self EXCEPT !.working_dir = r.ret]
              /\ Advance("create_WorkingDirectory", r.exc)
    /\ before' = Here
    /\ UNCHANGED <<tree, locked, sibling, inp, calls, proc, reads, twin>>

RunWrite ==
    /\ pc = "write_VaspInputSet"
    /\ \E writer_fails \in BOOLEAN :
          LET r == write_VaspInputSet(wd, tree, writer_fails)
          IN  /\ tree' = r.tree
              /\ self' = [self EXCEPT !.vaspwriter = r.ret]
              /\ Advance("write_VaspInputSet", r.exc)
    /\ before' = Here
    /\ UNCHANGED <<wd, locked, sibling, inp, calls, proc, reads, twin>>

RunShell ==
    /\ pc = "shell"
    /\ \E p \in Procs : \E written \in Written(p) :
          LET a == NodeInputs("shell", inp, self)
              r == shell(wd, a.arguments, p)
          IN  /\ proc' = [launch |-> p.launch, exit |-> p.exit, stdout |-> p.stdout,
                          stderr |-> p.stderr, argv |-> r.argv]
              /\ tree' = IF r.exc = "none" THEN Overlay(tree, written) ELSE tree
              /\ self' = [self EXCEPT !.job = r.output]
              /\ Advance("shell", r.exc)
    /\ before' = Here
    /\ UNCHANGED <<wd, locked, sibling, inp, calls, reads, twin>>

RunParse ==
    /\ pc = "parse_VaspOutput"
    /\ \E parser_fails \in BOOLEAN :
          LET a == NodeInputs("parse_VaspOutput", inp, self)
              r == parse_VaspOutput(a.workdir, a.function, a.parser_args, parser_fails)
          IN  /\ self' = [self EXCEPT !.vasp_output = r.output_dict]
              /\ Advance("parse_VaspOutput", r.exc)
    /\ before' = Here
    /\ UNCHANGED <<wd, tree, locked, sibling, inp, calls, proc, reads, twin>>

RunCheck ==
    /\ pc = "check_convergence"
    /\ LET a == NodeInputs("check_convergence", inp, self)
           r == check_convergence(tree, a.filename_vasprun, a.filename_vasplog,
                                  a.backup_vasplog)
       IN  /\ self' = [self EXCEPT !.convergence_status =
                          IF r.exc = "none" THEN r.converged ELSE NotData]
           /\ reads' = r.reads
           /\ twin' = [convergence_status |-> IF r.exc = "none" THEN ~r.converged
                                              ELSE NotData,
                       disk |-> Here, calls |-> <<>>, error |-> "none"]
           /\ Advance("check_convergence", r.exc)
    /\ before' = Here
    /\ UNCHANGED <<wd, tree, locked, sibling, inp, calls, proc>>

RunCleanup ==
    /\ pc = "delete_files_recursively"
    /\ LET a  == NodeInputs("delete_files_recursively", inp, self)
           r  == delete_files_recursively(wd, tree, locked, a.files_to_be_deleted)
           aT == NodeInputs("delete_files_recursively", inp, TwinSelf)
           rT == delete_files_recursively(twin.disk.wd, twin.disk.tree, locked,
                                          aT.files_to_be_deleted)
       IN  /\ tree' = r.tree
           /\ self' = [self EXCEPT !.cleanup = r.workdir]
           /\ calls' = Append(calls, <<"delete_files_recursively", a>>)
           /\ twin' = [twin EXCEPT !.disk.tree = rT.tree,
                          !.calls = Append(@, <<"delete_files_recursively", aT>>),
                          !.error = IF rT.exc = "none" THEN @
                                    ELSE "delete_files_recursively"]
           /\ Advance("delete_files_recursively", r.exc)
    /\ before' = Here
    /\ UNCHANGED <<wd, locked, sibling, inp, proc, reads>>

RunCompress ==
    /\ pc = "compress_directory"
    /\ \E fault \in {"none", "open", "add"} :
          LET a  == NodeInputs("compress_directory", inp, self)
              r  == compress_directory(Here, a.exclude_files, a.exclude_file_patterns,
                                       a.inside_dir, a.actually_compress, fault)
              aT == NodeInputs("compress_directory", inp, TwinSelf)
              rT == compress_directory(twin.disk, aT.exclude_files,
                                       aT.exclude_file_patterns, aT.inside_dir,
                                       aT.actually_compress, fault)
          IN  /\ wd' = r.disk.wd
              /\ tree' = r.disk.tree
              /\ sibling' = r.disk.sibling
              /\ self' = [self EXCEPT !.compress_operation = r.compressed_file]
              /\ calls' = Append(calls, <<"compress_directory", a>>)
              /\ twin' = [twin EXCEPT !.disk = rT.disk,
                             !.calls = Append(@, <<"compress_directory", aT>>),
                             !.error = IF rT.exc = "none" THEN @ ELSE "compress_directory"]
              /\ Advance("compress_directory", r.exc)
    /\ before' = Here
    /\ UNCHANGED <<locked, inp, proc, reads>>

RunRemove ==
    /\ pc = "remove_dir"
    /\ LET a  == NodeInputs("remove_dir", inp, self)
           r  == remove_dir(Here, locked, a.actually_remove)
           aT == NodeInputs("remove_dir", inp, TwinSelf)
           rT == remove_dir(twin.disk, locked, aT.actually_remove)
       IN  /\ wd' = r.disk.wd
           /\ tree' = r.disk.tree
           /\ sibling' = r.disk.sibling
           /\ self' = [self EXCEPT !.remove_dir = r.compressed_file]
           /\ calls' = Append(calls, <<"remove_dir", a>>)
           /\ twin' = [twin EXCEPT !.disk = rT.disk,
                          !.calls = Append(@, <<"remove_dir", aT>>),
                          !.error = IF rT.exc = "none" THEN @ ELSE "remove_dir"]
           /\ Advance("remove_dir", r.exc)
    /\ before' = Here
    /\ UNCHANGED <<locked, inp, proc, reads>>

----------------------------------------------------------------------------
(* A run of vasp_job *)

\* what may be at the workdir path when the run starts
StartDisks ==
    {Disk("absent", EmptyTree, Absent), Disk("file", EmptyTree, Absent),
     Disk("dir", EmptyTree, Absent),
     Disk("dir", TopFiles([n \in {"WAVECAR", "vasp.log"} |-> DataFile]), Absent)}

LockedChoices ==
    {{}, {PathOf(Root, "CHG")}, {PathOf("sub", "CHG"), PathOf(Root, "OUTCAR")}}

Fresh ==
    /\ self = NoOutputs
    /\ trace = <<>>
    /\ calls = <<>>
    /\ error = "none"
    /\ proc = NotData
    /\ reads = <<>>
    /\ twin = NoTwin
    /\ before = Here

Init ==
    /\ pc = "create_WorkingDirectory"
    /\ \E d \in StartDisks : wd = d.wd /\ tree = d.tree /\ sibling = d.sibling
    /\ locked \in LockedChoices
    /\ inp \in MacroInputs
    /\ Fresh

Next ==
    \/ RunCreate
    \/ RunWrite
    \/ RunShell
    \/ RunParse
    \/ RunCheck
    \/ RunCleanup
    \/ RunCompress
    \/ RunRemove

Spec == Init /\ [][Next]_vars

----------------------------------------------------------------------------
(* check_convergence called on its own, on every working directory *)

TextFiles(n) == {TextFile(c) : c \in SeqsUpTo(Chars, n)}

InitConv ==
    /\ pc = "check_convergence"
    /\ wd = "dir"
    /\ \E v \in VasprunFiles \cup {BinFile} :
       \E l \in {Absent, BinFile} \cup TextFiles(MaxLogLen) :
       \E b \in {Absent, BinFile} \cup TextFiles(MaxBackupLen) :
          tree = ConvergenceFiles(v, l, b)
    /\ sibling = Absent
    /\ locked = {}
    /\ inp = DefaultInputs
    /\ Fresh

SpecConv == InitConv /\ [][RunCheck]_vars

----------------------------------------------------------------------------
(* delete_files_recursively called on its own, on every directory tree *)

TreeNames == {"CHG", "WAVECAR", "OUTCAR"}

Trees ==
    {[p \in S |-> DataFile] :
        S \in {T \in SUBSET (Dirs \X TreeNames) : Cardinality(T) <= MaxFiles}}

InitDelete ==
    /\ pc = "delete_files_recursively"
    /\ wd \in {"dir", "absent", "file"}
    /\ tree \in (IF wd = "dir" THEN Trees ELSE {EmptyTree})
    /\ locked \in SUBSET (DOMAIN tree)
    /\ sibling = Absent
    /\ \E listed \in SUBSET TreeNames :
          inp = [DefaultInputs EXCEPT !.files_to_be_deleted = listed]
    /\ Fresh

SpecDelete == InitDelete /\ [][RunCleanup]_vars

----------------------------------------------------------------------------
(* compress_directory called on its own, with exclusions *)

ArchiveTreeNames == {"a.txt", "b.log", ArchiveName}

PatternChoices ==
    {<<"*", ".", "l", "o", "g">>, <<"?", ".", "t", "x", "t">>, <<"*", ".", "g", "z">>,
     <<"*", "t", "*">>}

ArchiveTrees ==
    {[p \in S |-> DataFile] :
        S \in {T \in SUBSET (Dirs \X ArchiveTreeNames) : Cardinality(T) <= MaxFiles}}

\* the arguments of the call, kept in `inp`
InitArchive ==
    /\ pc = "compress_directory"
    /\ wd = "dir"
    /\ tree \in ArchiveTrees
    /\ locked = {}
    /\ sibling = Absent
    /\ inp \in [exclude_files : SUBSET ArchiveTreeNames,
                exclude_file_patterns : SUBSET PatternChoices,
                inside_dir : BOOLEAN, actually_compress : BOOLEAN]
    /\ Fresh

CompressAlone ==
    /\ pc = "compress_directory"
    /\ \E fault \in {"none", "open", "add"} :
          LET r == compress_directory(Here, inp.exclude_files, inp.exclude_file_patterns,
                                      inp.inside_dir, inp.actually_compress, fault)
          IN  /\ wd' = r.disk.wd
              /\ tree' = r.disk.tree
              /\ sibling' = r.disk.sibling
              /\ self' = [self EXCEPT !.compress_operation = r.compressed_file]
              /\ calls' = Append(calls, <<"compress_directory", inp>>)
              /\ Advance("compress_directory", r.exc)
    /\ before' = Here
    /\ UNCHANGED <<locked, inp, proc, reads, twin>>

SpecArchive == InitArchive /\ [][CompressAlone]_vars

----------------------------------------------------------------------------
(* Properties *)

Ran(node) == \E i \in 1..Len(trace) : trace[i] = node

\* the node that ran last
Last == IF trace = <<>> THEN "none" ELSE trace[Len(trace)]

\* the marker occurs in the text; it holds no line break, so inside one line
HasMarker(file) ==
    /\ file.kind = "text"
    /\ \E i \in 1..(Len(file.chars) - 1) : file.chars[i] = "m" /\ file.chars[i + 1] = "m"

VasprunBefore == Lookup(before.tree, PathOf(Root, "vasprun.xml"))
VasplogBefore == Lookup(before.tree, PathOf(Root, "vasp.log"))
BackupBefore == Lookup(before.tree, PathOf(Root, "error.out"))

\* C1: the nodes that have run are an initial part of the fixed order, each
\* once, and the node to run next is the one after them; so remove_dir never
\* runs before compress_directory has
C1_FixedOrder ==
    /\ Len(trace) <= Len(Order)
    /\ \A i \in 1..Len(trace) : trace[i] = Order[i]
    /\ pc \notin {"done", "aborted"} => pc = Order[Len(trace) + 1]
    /\ pc = "done" => trace = Order
    /\ \A i, j \in 1..Len(trace) :
          trace[i] = "remove_dir" /\ trace[j] = "compress_directory" => j < i

C1_Witness ==
    /\ pc = "done"
    /\ inp.compress /\ inp.remove_calc_dir
    /\ trace = Order
    /\ wd = "absent" /\ sibling # Absent

\* C2: with no parsable vasprun.xml and no vasp.log, a marker in error.out
\* makes check_convergence return True
C2_BackupLogUsed ==
    (/\ Last = "check_convergence"
     /\ VasprunBefore.kind # "xml"
     /\ VasplogBefore.kind = "absent"
     /\ HasMarker(BackupBefore))
    => self.convergence_status = TRUE

\* C3: vasp.log is opened only when vasprun.xml did not parse, error.out only
\* when vasp.log gave no verdict either, and a vasprun.xml that parses decides
\* alone: the verdict is its converged flag and no log is opened
C3_TiersInOrder ==
    Last = "check_convergence" =>
        /\ reads # <<>> /\ reads[1] = "vasprun.xml"
        /\ (\E i \in 1..Len(reads) : reads[i] = "vasp.log")
              => VasprunBefore.kind # "xml"
        /\ (\E i \in 1..Len(reads) : reads[i] = "error.out")
              => /\ VasprunBefore.kind # "xml"
                 /\ VasplogBefore.kind # "text"
                 /\ \E i \in 1..Len(reads) : reads[i] = "vasp.log"
        /\ VasprunBefore.kind = "xml"
              => /\ self.convergence_status = VasprunBefore.converged
                 /\ reads = <<"vasprun.xml">>

C3_Witness ==
    /\ Last = "check_convergence"
    /\ VasprunBefore = XmlFile(FALSE)
    /\ HasMarker(VasplogBefore)
    /\ HasMarker(BackupBefore)
    /\ self.convergence_status = FALSE
    /\ reads = <<"vasprun.xml">>

\* C4: with no parsable vasprun.xml, a vasp.log holding the marker anywhere in
\* a line makes check_convergence return True
C4_MarkerInPrimaryLog ==
    (/\ Last = "check_convergence"
     /\ VasprunBefore.kind # "xml"
     /\ HasMarker(VasplogBefore))
    => self.convergence_status = TRUE

C4_Witness ==
    /\ Last = "check_convergence"
    /\ VasprunBefore.kind = "text"
    /\ VasplogBefore = TextFile(<<"\n", " ", "m", "m">>)
    /\ BackupBefore.kind = "absent"
    /\ self.convergence_status = TRUE

\* C5: check_convergence never raises and returns a boolean, and it returns
\* False when no source is usable or holds the marker
C5_AlwaysBoolean ==
    Last = "check_convergence" =>
        /\ error = "none" /\ pc # "aborted"
        /\ self.convergence_status \in BOOLEAN
        /\ (/\ VasprunBefore.kind # "xml"
            /\ ~HasMarker(VasplogBefore)
            /\ ~HasMarker(BackupBefore))
              => self.convergence_status = FALSE

C5_Witness ==
    /\ Last = "check_convergence"
    /\ VasprunBefore = BinFile
    /\ VasplogBefore = BinFile
    /\ BackupBefore = BinFile
    /\ self.convergence_status = FALSE
    /\ pc = "delete_files_recursively"

\* C6 as claimed: a command that cannot be launched makes shell raise, and the
\* run ends there, before parse_VaspOutput
C6_LaunchFailureAborts ==
    (Ran("shell") /\ proc.launch # "ok")
    => /\ pc = "aborted" /\ error = "shell"
       /\ ~Ran("parse_VaspOutput")

\* C6 as amended: a command that cannot be launched does not make shell raise;
\* the exit status of /bin/sh (127 not found, 126 not executable) comes back as
\* return_code and parse_VaspOutput runs next
C6_LaunchFailureReturned ==
    (Ran("shell") /\ proc.launch # "ok")
    => /\ error # "shell"
       /\ self.job.return_code = (IF proc.launch = "not_found" THEN 127 ELSE 126)
       /\ Last = "shell" => pc = "parse_VaspOutput"

C6_Witness ==
    /\ pc = "done"
    /\ proc.launch = "not_found"
    /\ self.job.return_code = 127
    /\ Ran("parse_VaspOutput") /\ Ran("remove_dir")

\* C7 as claimed: once the post-processing has begun no exception ends the run
C7_BestEffortAbsorbed ==
    Ran("delete_files_recursively") => pc # "aborted" /\ error = "none"

\* a deletion of delete_files_recursively has failed: a listed file is still there
DeletionFailed ==
    \E p \in DOMAIN tree \cap locked : BaseName(p) \in inp.files_to_be_deleted

\* C7 as amended: failures of delete_files_recursively and of remove_dir are
\* absorbed and the next node runs; an error of compress_directory is not: it
\* ends the run before remove_dir
C7_CleanupAndRemovalAbsorbed ==
    /\ error \notin {"delete_files_recursively", "remove_dir"}
    /\ Last = "delete_files_recursively" => pc = "compress_directory"
    /\ Last = "remove_dir" => pc = "done"
    /\ error = "compress_directory"
          => pc = "aborted" /\ inp.compress /\ ~Ran("remove_dir")
    /\ (Last = "compress_directory" /\ error = "none") => pc = "remove_dir"

C7_Witness ==
    /\ pc = "done"
    /\ DeletionFailed
    /\ inp.remove_calc_dir /\ wd = "dir"
    /\ inp.compress

\* C8: whatever code the command exits with, shell returns it with stdout and
\* stderr each on its own, and parse_VaspOutput runs next
C8_ExitCodeReturned ==
    (Ran("shell") /\ proc.launch = "ok")
    => /\ error # "shell"
       /\ self.job = [stdout |-> proc.stdout, stderr |-> proc.stderr,
                      return_code |-> proc.exit]
       /\ Last = "shell" => pc = "parse_VaspOutput"

C8_Witness ==
    /\ Last = "shell"
    /\ proc.launch = "ok" /\ proc.exit > 0
    /\ self.job.return_code = proc.exit
    /\ self.job.stdout = "done" /\ self.job.stderr = "warn"
    /\ pc = "parse_VaspOutput"

\* C9: the run in which check_convergence returned the other verdict calls the
\* post-processing nodes with the same arguments and leaves the same files
C9_VerdictIsNoGate ==
    Ran("check_convergence")
    => /\ twin.convergence_status = ~self.convergence_status
       /\ twin.calls = calls
       /\ twin.disk = Here
       /\ twin.error = error

C9_Witness ==
    /\ pc = "done"
    /\ self.convergence_status = FALSE /\ twin.convergence_status = TRUE
    /\ inp.compress /\ inp.remove_calc_dir
    /\ Len(calls) = 3
    /\ sibling # Absent /\ wd = "absent"

\* C10: delete_files_recursively does not raise and returns its path; in a
\* directory every listed file whose deletion succeeds is gone, one whose
\* deletion fails stays without stopping the others, and the files not listed
\* stay as they were; nothing changes when the path is no directory
C10_CleanupBestEffort ==
    Last = "delete_files_recursively" =>
        /\ error = "none" /\ self.cleanup = WorkDir
        /\ wd = before.wd
        /\ DOMAIN tree \subseteq DOMAIN before.tree
        /\ \A p \in DOMAIN before.tree :
              /\ (BaseName(p) \in inp.files_to_be_deleted /\ p \notin locked)
                    => p \notin DOMAIN tree
              /\ (BaseName(p) \notin inp.files_to_be_deleted \/ p \in locked)
                    => p \in DOMAIN tree /\ tree[p] = before.tree[p]
        /\ before.wd # "dir" => tree = before.tree

C10_Witness ==
    /\ Last = "delete_files_recursively"
    /\ PathOf(Root, "CHG") \in DOMAIN tree \cap locked
    /\ PathOf("sub", "CHG") \in DOMAIN before.tree \ DOMAIN tree
    /\ PathOf("sub", "OUTCAR") \in DOMAIN tree
    /\ inp.files_to_be_deleted = {"CHG", "WAVECAR"}

\* the base names each pattern of PatternChoices is meant to exclude
MeantToMatch ==
    {<<"b.log", <<"*", ".", "l", "o", "g">> >>, <<"a.txt", <<"?", ".", "t", "x", "t">> >>,
     <<ArchiveName, <<"*", ".", "g", "z">> >>, <<"a.txt", <<"*", "t", "*">> >>,
     <<ArchiveName, <<"*", "t", "*">> >>}

\* the tarball compress_directory has written
Tarball == IF inp.inside_dir THEN Lookup(tree, PathOf(Root, ArchiveName)) ELSE sibling

\* C11: the tarball holds exactly the files of the tree that are not the
\* tarball itself, not named in exclude_files and matched by no pattern of
\* exclude_file_patterns; the tarball is never one of its own entries
C11_ArchiveEntries ==
    (Last = "compress_directory" /\ error = "none" /\ inp.actually_compress)
    => /\ Tarball.kind = "tar"
       /\ Tarball.entries =
             {p \in DOMAIN before.tree :
                 /\ ~(inp.inside_dir /\ p = PathOf(Root, ArchiveName))
                 /\ BaseName(p) \notin inp.exclude_files
                 /\ ~\E pattern \in inp.exclude_file_patterns :
                        <<BaseName(p), pattern>> \in MeantToMatch}
       /\ inp.inside_dir => PathOf(Root, ArchiveName) \notin Tarball.entries
       /\ self.compress_operation = OutputFile(inp.inside_dir)

C11_Witness ==
    /\ Last = "compress_directory" /\ error = "none"
    /\ inp.actually_compress /\ inp.inside_dir
    /\ DOMAIN before.tree = {PathOf(Root, "a.txt"), PathOf(Root, "b.log"),
                             PathOf(Root, ArchiveName)}
    /\ inp.exclude_file_patterns = {<<"*", ".", "l", "o", "g">>}
    /\ inp.exclude_files = {}
    /\ Tarball.entries = {PathOf(Root, "a.txt")}

\* C12: once create_WorkingDirectory has returned, the working directory is
\* there with what it held before, and the path is returned
C12_DirectoryExists ==
    (Last = "create_WorkingDirectory" /\ error = "none")
    => /\ wd = "dir"
       /\ tree = before.tree
       /\ self.working_dir = WorkDir

\* C13 as claimed: called without arguments, shell runs the command with
\* -in control.inp
C13_DefaultArguments ==
    (Ran("shell") /\ error # "shell")
    => proc.argv = <<"command", "-in", "control.inp">>

\* C13 as amended: called without arguments, shell runs the command alone
C13_NoDefaultArguments ==
    (Ran("shell") /\ error # "shell") => proc.argv = <<"command">>

C13_Witness ==
    /\ Last = "shell"
    /\ NodeInputs("shell", inp, self).arguments = "None"
    /\ proc.launch = "ok" /\ proc.argv = <<"command">>
    /\ pc = "parse_VaspOutput"

\* C14: a parser given by the caller is called with the working directory and
\* the entries of vasp_parser_args, and vasp_output is what it returns
C14_ParserGetsWorkdir ==
    (/\ Ran("parse_VaspOutput") /\ error # "parse_VaspOutput"
     /\ inp.vasp_parser_function # "None")
    => /\ self.vasp_output.parsed_by = inp.vasp_parser_function
       /\ self.vasp_output.kwargs = inp.vasp_parser_args \cup {<<"workdir", WorkDir>>}

\* C15: a run that archives and reaches the end leaves the tarball on disk at
\* the path compress_directory returned
C15_ArchiveSurvives ==
    (pc = "done" /\ inp.compress)
    => IF self.compress_operation = "inside"
       THEN Lookup(tree, PathOf(Root, ArchiveName)).kind = "tar"
       ELSE sibling.kind = "tar"

====
